---- MODULE Spec2Model ----
(***************************************************************************)
(* Model of pycoin/key/Key.py: the Key object (secret exponent, public     *)
(* pair or hash160), its accessors, public_copy, sign and verify.          *)
(*                                                                         *)
(* The elliptic-curve group, the byte encoders and the DER codec live in   *)
(* other modules of pycoin (pycoin.ecdsa, pycoin.encoding,                 *)
(* pycoin.satoshi.der); they are modelled here on a small curve of prime   *)
(* order so that sign / verify / recovery are really computed.             *)
(***************************************************************************)
EXTENDS Integers, Sequences, FiniteSets, TLC

\* ------------------------------------------------------------------------
\* Python values
\* ------------------------------------------------------------------------
\* An optional value is None or Some(v); Val unwraps it.
None == <<>>
Some(v) == <<v>>
Val(o) == o[1]

\* A coordinate that is None (the point at infinity is (None, None)).
NoneCoord == -1

\* Python truthiness of an optional integer, byte string, object.
TruthyInt(o) == o # None /\ Val(o) # 0
TruthyBytes(o) == o # None /\ Val(o) # <<>>
TruthyObj(o) == o # None

\* ------------------------------------------------------------------------
\* Bounds of the model
\* ------------------------------------------------------------------------
\* Key objects alive at once: the constructed key and its public copies.
MaxKeys == 2
\* Message hashes are the one-byte strings <<0>> .. <<MaxMsgByte>>.
MaxMsgByte == 1
\* Signatures offered to verify encode r in 0 .. MaxSigInt (s in 0 .. order).
MaxSigInt == 3
\* Threads calling into one Key concurrently.
NThreads == 2

\* ------------------------------------------------------------------------
\* pycoin.ecdsa: the generator (curve y^2 = x^3 + 2x + 1 over GF(5), which
\* has 7 points, base point (0, 1) of prime order 7)
\* ------------------------------------------------------------------------
Curve == [p |-> 5, a |-> 2, b |-> 1, n |-> 7, G |-> <<0, 1>>]

Infinity == <<NoneCoord, NoneCoord>>

InvMod(x, m) == CHOOSE i \in 1..(m - 1) : (i * x) % m = 1

contains_point(x, y) ==
    (y * y) % Curve.p = (x * x * x + Curve.a * x + Curve.b) % Curve.p

PointAdd(P, Q) ==
    IF P = Infinity THEN Q
    ELSE IF Q = Infinity THEN P
    ELSE IF P[1] = Q[1] /\ (P[2] + Q[2]) % Curve.p = 0 THEN Infinity
    ELSE LET p == Curve.p
             l == IF P[1] = Q[1]
                  THEN ((3 * P[1] * P[1] + Curve.a) * InvMod(2 * P[2], p)) % p
                  ELSE ((Q[2] - P[2] + p) * InvMod(Q[1] - P[1] + p, p)) % p
             x == (l * l + 2 * p - P[1] - Q[1]) % p
             y == (l * (P[1] - x + p) + p - P[2]) % p
         IN <<x, y>>

RECURSIVE MulNat(_, _)
MulNat(k, P) == IF k = 0 THEN Infinity ELSE PointAdd(MulNat(k - 1, P), P)

\* k * P, the scalar taken modulo the group order.
PointMul(k, P) == MulNat(k % Curve.n, P)

order == Curve.n

\* generator.sign(secret_exponent, val) with nonce k: (r, s), or None when
\* the nonce gives r = 0 or s = 0 and the generator must pick another one.
SignWithNonce(se, val, k) ==
    LET n == Curve.n
        r == PointMul(k, Curve.G)[1] % n
        s == (InvMod(k, n) * ((val + r * se) % n)) % n
    IN IF r = 0 \/ s = 0 THEN None ELSE Some(<<r, s>>)

\* Every (r, s) generator.sign may return for this secret and value.
SignResults(se, val) ==
    {Val(SignWithNonce(se, val, k)) :
        k \in {j \in 1..(Curve.n - 1) : SignWithNonce(se, val, j) # None}}

\* generator.verify(public_pair, val, (r, s))
GenVerify(Q, val, rs) ==
    LET n == Curve.n
        r == rs[1]
        s == rs[2]
    IN IF r < 1 \/ r >= n \/ s < 1 \/ s >= n THEN FALSE
       ELSE LET w == InvMod(s, n)
                X == PointAdd(PointMul((val * w) % n, Curve.G),
                              PointMul((r * w) % n, Q))
            IN X # Infinity /\ X[1] % n = r

\* The curve points with x-coordinate x, lower y first.
PointsForX(x) ==
    LET ys == {y \in 0..(Curve.p - 1) : x < Curve.p /\ contains_point(x, y)}
        lo == CHOOSE y \in ys : \A z \in ys : y <= z
        hi == CHOOSE y \in ys : \A z \in ys : z <= y
    IN IF ys = {} THEN <<>>
       ELSE IF lo = hi THEN << <<x, lo>> >>
       ELSE << <<x, lo>>, <<x, hi>> >>

RECURSIVE DropInfinity(_)
DropInfinity(ps) ==
    IF ps = <<>> THEN <<>>
    ELSE IF Head(ps) = Infinity THEN DropInfinity(Tail(ps))
    ELSE <<Head(ps)>> \o DropInfinity(Tail(ps))

\* generator.possible_public_pairs_for_signature(val, (r, s)): the public
\* points Q = r^-1 (s R - val G) for the points R with x-coordinate r, in
\* the order of R.
possible_public_pairs_for_signature(val, rs) ==
    LET n == Curve.n
        r == rs[1]
        s == rs[2]
    IN IF r < 1 \/ r >= n \/ s < 1 \/ s >= n THEN <<>>
       ELSE LET ir == InvMod(r, n)
                Rs == PointsForX(r)
                Cand(R) == PointAdd(PointMul((s * ir) % n, R),
                                    PointMul((n - ((ir * val) % n)) % n, Curve.G))
            IN DropInfinity([i \in 1..Len(Rs) |-> Cand(Rs[i])])

\* ------------------------------------------------------------------------
\* pycoin.encoding, pycoin.serialize, pycoin.satoshi.der
\* ------------------------------------------------------------------------
\* from_bytes_32: big-endian bytes to integer.
RECURSIVE from_bytes_32(_)
from_bytes_32(v) ==
    IF v = <<>> THEN 0
    ELSE 256 * from_bytes_32(SubSeq(v, 1, Len(v) - 1)) + v[Len(v)]

\* public_pair_to_sec: 02/03 x for compressed, 04 x y for uncompressed.
public_pair_to_sec(pp, compressed) ==
    IF compressed THEN <<2 + (pp[2] % 2), pp[1]>> ELSE <<4, pp[1], pp[2]>>

\* The digest has HashMod values, so distinct encodings can collide.
HashMod == 7

RECURSIVE Digest(_)
Digest(bytes) ==
    IF bytes = <<>> THEN 1
    ELSE (3 * Digest(Tail(bytes)) + Head(bytes) + 1) % HashMod

\* hash160: a one-byte digest of the byte string.
hash160(bytes) == <<Digest(bytes)>>

public_pair_to_hash160_sec(pp, compressed) ==
    hash160(public_pair_to_sec(pp, compressed))

\* hash160_sec_to_bitcoin_address: prefix, payload, checksum byte.
hash160_sec_to_bitcoin_address(h, address_prefix) ==
    address_prefix \o h \o <<Digest(address_prefix \o h)>>

\* secret_exponent_to_wif: prefix, exponent, 01 marker when compressed.
secret_exponent_to_wif(se, compressed, wif_prefix) ==
    wif_prefix \o <<se>> \o (IF compressed THEN <<1>> ELSE <<>>)

\* b2h: two hex digits (as numbers 0..15) per byte.
RECURSIVE b2h(_)
b2h(bytes) ==
    IF bytes = <<>> THEN <<>>
    ELSE <<Head(bytes) \div 16, Head(bytes) % 16>> \o b2h(Tail(bytes))

\* sigencode_der: SEQUENCE { INTEGER r, INTEGER s }, r and s below 128.
sigencode_der(r, s) == <<48, 6, 2, 1, r, 2, 1, s>>

\* sigdecode_der: Some(<<r, s>>), or None when the DER is malformed (the
\* codec raises UnexpectedDER).
sigdecode_der(sig) ==
    IF /\ Len(sig) = 8
       /\ sig[1] = 48 /\ sig[2] = 6
       /\ sig[3] = 2 /\ sig[4] = 1 /\ sig[5] < 128
       /\ sig[6] = 2 /\ sig[7] = 1 /\ sig[8] < 128
    THEN Some(<<sig[5], sig[8]>>)
    ELSE None

\* ------------------------------------------------------------------------
\* Key.__init__
\* ------------------------------------------------------------------------
NoKey == [secret_exponent |-> None, generator |-> None, public_pair |-> None,
          hash160_uncompressed |-> None, hash160_compressed |-> None,
          prefer_uncompressed |-> FALSE]

\* ArityOk with the test relaxed to "at most one".
ArityAtMostOne(se, pp, h) ==
    Cardinality({i \in 1..3 : <<se, pp, h>>[i] = None}) >= 2

\* [secret_exponent, public_pair, hash160].count(None) == 2
ArityOk(se, pp, h) ==
    Cardinality({i \in 1..3 : <<se, pp, h>>[i] = None}) = 2

\* secret_exponent and not generator
MissingGenerator(se, g) == TruthyInt(se) /\ ~TruthyObj(g)

\* InvalidSecret with the upper bound off by one.
InvalidSecretAboveOrder(s) == s < 1 \/ s > Curve.n

\* self._secret_exponent < 1 or self._secret_exponent >= self._generator.order()
InvalidSecret(s) == s < 1 \/ s >= order

\* (None in public_pair) or (generator and not generator.contains_point(*public_pair))
InvalidPair(pair, g) ==
    \/ NoneCoord \in {pair[1], pair[2]}
    \/ (TruthyObj(g) /\ ~contains_point(pair[1], pair[2]))

Fail(e) == [error |-> e, key |-> NoKey]

\* The constructor: the error it raises ("" for none) and the object built.
KeyInit(se, g, pp, h, pu, ic) ==
    LET ic1 == IF ic = None THEN (IF TruthyBytes(h) THEN FALSE ELSE TRUE)
               ELSE Val(ic)
        pu1 == IF pu = None THEN ~ic1 ELSE Val(pu)
        derive == pp = None /\ se # None
        pp1 == IF derive THEN Some(PointMul(Val(se), Val(g))) ELSE pp
    IN IF ~ArityOk(se, pp, h)
       THEN Fail("exactly one of secret_exponent, public_pair, hash160 must be passed.")
       ELSE IF MissingGenerator(se, g)
       THEN Fail("generator not specified when secret exponent specified")
       ELSE IF derive /\ InvalidSecret(Val(se))
       THEN Fail("InvalidSecretExponentError")
       ELSE IF pp1 # None /\ InvalidPair(Val(pp1), g)
       THEN Fail("InvalidPublicPairError")
       ELSE [error |-> "",
             key |-> [secret_exponent |-> se,
                      generator |-> g,
                      public_pair |-> pp1,
                      hash160_uncompressed |->
                          IF TruthyBytes(h) /\ ~ic1 THEN h ELSE None,
                      hash160_compressed |->
                          IF TruthyBytes(h) /\ ic1 THEN h ELSE None,
                      prefer_uncompressed |-> pu1]]

\* ------------------------------------------------------------------------
\* Accessors
\* ------------------------------------------------------------------------
\* Class attributes of Key (no network subclass made).
wif_prefix == None
sec_prefix == None
address_prefix == None

is_private(key) == key.secret_exponent # None

\* Key._use_uncompressed
use_uncompressed(key, uu) ==
    IF uu # None /\ Val(uu) THEN TRUE
    ELSE IF uu = None THEN key.prefer_uncompressed
    ELSE FALSE

\* Key.sec
sec(key, uu) ==
    IF key.public_pair = None THEN None
    ELSE Some(public_pair_to_sec(Val(key.public_pair), ~use_uncompressed(key, uu)))

\* Key.sec_as_hex
sec_as_hex(key, uu, prefix) ==
    LET s == sec(key, uu)
        px == IF prefix = None THEN sec_prefix ELSE prefix
    IN IF s = None THEN [error |-> "", result |-> None]
       ELSE IF px = None THEN [error |-> "sec_prefix not set", result |-> None]
       ELSE [error |-> "", result |-> Some(Val(px) \o b2h(Val(s)))]

\* Key.wif
wif(key, uu, prefix) ==
    LET px == IF TruthyBytes(prefix) THEN prefix ELSE wif_prefix
    IN IF key.secret_exponent = None THEN [error |-> "", result |-> None]
       ELSE IF px = None THEN [error |-> "wif_prefix not set", result |-> None]
       ELSE [error |-> "",
             result |-> Some(secret_exponent_to_wif(Val(key.secret_exponent),
                                                    ~use_uncompressed(key, uu),
                                                    Val(px)))]

\* The memo slot Key.hash160 uses for a variant (u: uncompressed).
Slot(key, u) == IF u THEN key.hash160_uncompressed ELSE key.hash160_compressed

\* SlotValue with the variant argument dropped in the call of sec.
SlotValueByPreference(key, u) == Some(hash160(Val(sec(key, None))))

\* The digest Key.hash160 stores: hash160(self.sec(use_uncompressed=u)).
SlotValue(key, u) == Some(hash160(Val(sec(key, Some(u)))))

\* The slot assignment of Key.hash160.
FillSlot(key, u) ==
    IF u THEN [key EXCEPT !.hash160_uncompressed = SlotValue(key, u)]
    ELSE [key EXCEPT !.hash160_compressed = SlotValue(key, u)]

\* The tail of Key.address, once self.hash160() has answered h.
AddressOf(h, prefix) ==
    LET px == IF TruthyBytes(prefix) THEN prefix ELSE address_prefix
    IN IF ~TruthyBytes(h) THEN [error |-> "", result |-> None]
       ELSE IF px = None THEN [error |-> "address_prefix not set", result |-> None]
       ELSE [error |-> "",
             result |-> Some(hash160_sec_to_bitcoin_address(Val(h), Val(px)))]

\* Key.as_text; a key without a public pair reads its hash160 slot only.
as_text(key, apx, spx, wpx) ==
    LET hex == sec_as_hex(key, None, spx)
    IN IF TruthyInt(key.secret_exponent) THEN wif(key, None, wpx)
       ELSE IF hex.error # "" THEN hex
       ELSE IF TruthyBytes(hex.result) THEN hex
       ELSE AddressOf(Slot(key, use_uncompressed(key, None)), apx)

\* PublicCopyArgs with the preference left to the constructor's default.
PublicCopyArgsDefaultPreference(key) ==
    [public_pair |-> key.public_pair,
     prefer_uncompressed |-> None,
     is_compressed |-> Some(key.hash160_compressed # None)]

\* The arguments public_copy passes to the constructor.
PublicCopyArgs(key) ==
    [public_pair |-> key.public_pair,
     prefer_uncompressed |-> Some(key.prefer_uncompressed),
     is_compressed |-> Some(key.hash160_compressed # None)]

\* Key.public_copy of a private key: the constructor's outcome.
PublicCopyOf(key) ==
    LET a == PublicCopyArgs(key)
    IN KeyInit(None, None, a.public_pair, None, a.prefer_uncompressed, a.is_compressed)

\* ------------------------------------------------------------------------
\* Key.sign, Key.verify
\* ------------------------------------------------------------------------
Call(fn, arg) == [fn |-> fn, arg |-> arg]

\* Key.sign with the generator's nonce k; None when the generator rejects k.
SignEval(key, h, k) ==
    IF ~is_private(key)
    THEN [error |-> "Key must be private to be able to sign", result |-> None]
    ELSE LET rs == SignWithNonce(Val(key.secret_exponent), from_bytes_32(h), k)
         IN [error |-> "", result |-> Some(sigencode_der(Val(rs)[1], Val(rs)[2]))]

\* Does the candidate's compressed or uncompressed hash160 equal h160?
Matches(h160, candidate) ==
    \/ h160 = Some(public_pair_to_hash160_sec(candidate, TRUE))
    \/ h160 = Some(public_pair_to_hash160_sec(candidate, FALSE))

\* FirstMatch without the break: the last matching candidate wins.
LastMatch(h160, cands) ==
    LET ms == {i \in 1..Len(cands) : Matches(h160, cands[i])}
    IN IF ms = {} THEN 0 ELSE CHOOSE i \in ms : \A j \in ms : j <= i

\* The for loop of Key.verify: index of the candidate it breaks on, 0 when
\* the loop runs to its else branch.
FirstMatch(h160, cands) ==
    LET ms == {i \in 1..Len(cands) : Matches(h160, cands[i])}
    IN IF ms = {} THEN 0 ELSE CHOOSE i \in ms : \A j \in ms : i <= j

\* ResolveGenerator without the fallback to self._generator.
OverrideOnly(key, g) == g

\* NeedsRecovery testing for a private key instead of a known public pair.
NotPrivate(key) == key.secret_exponent = None

\* if self.public_pair() is None: the key must recover candidates.
NeedsRecovery(key) == key.public_pair = None

\* The generator Key.verify works with: generator or self._generator.
ResolveGenerator(key, g) == IF TruthyObj(g) THEN g ELSE key.generator

\* Key.verify for a key without a public pair, after the decode: recovery,
\* match against self.hash160(), then the verify primitive.
VerifyByRecovery(key, val, rs) ==
    LET cands == possible_public_pairs_for_signature(val, rs)
        h160 == Slot(key, use_uncompressed(key, None))
        m == FirstMatch(h160, cands)
        log == <<Call("sigdecode_der", <<>>),
                 Call("possible_public_pairs_for_signature", <<>>)>>
    IN IF m = 0 THEN [error |-> "", result |-> Some(FALSE), calls |-> log]
       ELSE [error |-> "", result |-> Some(GenVerify(cands[m], val, rs)),
             calls |-> Append(log, Call("verify", cands[m]))]

\* Key.verify: error, result (Some(boolean), None when it raises) and the
\* primitives it invoked, in order.
VerifyEval(key, h, sig, g) ==
    LET gen == ResolveGenerator(key, g)
        val == from_bytes_32(h)
        rs == sigdecode_der(sig)
    IN IF ~TruthyObj(gen)
       THEN [error |-> "generator must be specified", result |-> None, calls |-> <<>>]
       ELSE IF rs = None
       THEN [error |-> "UnexpectedDER", result |-> None,
             calls |-> <<Call("sigdecode_der", <<>>)>>]
       ELSE IF NeedsRecovery(key)
       THEN VerifyByRecovery(key, val, Val(rs))
       ELSE [error |-> "", result |-> Some(GenVerify(Val(key.public_pair), val, Val(rs))),
             calls |-> <<Call("sigdecode_der", <<>>),
                         Call("verify", Val(key.public_pair))>>]

\* ------------------------------------------------------------------------
\* State
\* ------------------------------------------------------------------------
VARIABLES
    heap,   \* the Key objects, by identity 1 .. Len(heap)
    pc,     \* per calling thread: "idle", inside Key.hash160, or "done"
    loc,    \* per thread: the frame of its Key.hash160 call in progress
    ret     \* per thread: the call that just completed and its outcome

vars == <<heap, pc, loc, ret>>

NoRet == [op |-> "", self |-> 0, args |-> <<>>, result |-> None,
          error |-> "", calls |-> <<>>]
NoLoc == [self |-> 0, u |-> FALSE, caller |-> "", uu |-> None, prefix |-> None]

\* ------------------------------------------------------------------------
\* Inputs
\* ------------------------------------------------------------------------
OptBool == {None, Some(TRUE), Some(FALSE)}
Generators == {None, Some(Curve.G)}
Secrets == {None} \cup {Some(s) : s \in (-1)..(order + 1)}
\* Two points of the curve, a pair off the curve, a pair with a None.
Pairs == {None, Some(<<1, 3>>), Some(<<3, 2>>), Some(<<1, 1>>), Some(<<NoneCoord, 1>>)}
\* The empty byte string and the digests of the curve's public points.
Hashes == {None, Some(<<>>)} \cup
          {Some(public_pair_to_hash160_sec(PointMul(d, Curve.G), c)) :
              d \in 1..(order - 1), c \in BOOLEAN}
Prefixes == {None, Some(<<>>), Some(<<0>>)}
Msgs == {<<b>> : b \in 0..MaxMsgByte}
Malformed == {<<>>, <<48, 6, 2, 1, 1, 2, 1>>, <<49, 6, 2, 1, 1, 2, 1, 1>>,
              <<48, 6, 2, 1, 1, 2, 1, 1, 0>>}
Sigs == {sigencode_der(r, s) : r \in 0..MaxSigInt, s \in 0..order} \cup Malformed
Nonces == 1..(order - 1)

\* ------------------------------------------------------------------------
\* Calls
\* ------------------------------------------------------------------------
\* The call of thread t completes with outcome out.
Complete(t, op, self, args, out) ==
    /\ pc' = [pc EXCEPT ![t] = "done"]
    /\ ret' = [ret EXCEPT ![t] = [op |-> op, self |-> self, args |-> args,
                                  result |-> out.result, error |-> out.error,
                                  calls |-> out.calls]]

Plain(out) == [result |-> out.result, error |-> out.error, calls |-> <<>>]
Value(v) == [result |-> v, error |-> "", calls |-> <<>>]

\* Every call below is made by a thread t at rest; its inputs are drawn
\* from the sets it is given (KS: the objects it may be made on).

\* Key(secret_exponent, generator, public_pair, hash160, prefer_uncompressed,
\*     is_compressed). One object is built; the others are its public copies.
Construct(t, SE, GS, PP, HS, PU, IC) ==
    /\ pc[t] = "idle"
    /\ heap = <<>>
    /\ \E se \in SE, g \in GS, pp \in PP, h \in HS, pu \in PU, ic \in IC :
          LET r == KeyInit(se, g, pp, h, pu, ic)
          IN /\ heap' = IF r.error = "" THEN Append(heap, r.key) ELSE heap
             /\ Complete(t, "Key", 0,
                         [secret_exponent |-> se, generator |-> g, public_pair |-> pp,
                          hash160 |-> h, prefer_uncompressed |-> pu,
                          is_compressed |-> ic],
                         [result |-> IF r.error = "" THEN Len(heap) + 1 ELSE 0,
                          error |-> r.error, calls |-> <<>>])
    /\ UNCHANGED loc

SecretExponent(t, KS) ==
    /\ pc[t] = "idle"
    /\ \E k \in KS :
          Complete(t, "secret_exponent", k, <<>>, Value(heap[k].secret_exponent))
    /\ UNCHANGED <<heap, loc>>

PublicPair(t, KS) ==
    /\ pc[t] = "idle"
    /\ \E k \in KS :
          Complete(t, "public_pair", k, <<>>, Value(heap[k].public_pair))
    /\ UNCHANGED <<heap, loc>>

Sec(t, KS, UU) ==
    /\ pc[t] = "idle"
    /\ \E k \in KS, uu \in UU :
          Complete(t, "sec", k, [use_uncompressed |-> uu], Value(sec(heap[k], uu)))
    /\ UNCHANGED <<heap, loc>>

Wif(t, KS, UU, PX) ==
    /\ pc[t] = "idle"
    /\ \E k \in KS, uu \in UU, prefix \in PX :
          Complete(t, "wif", k, [use_uncompressed |-> uu, prefix |-> prefix],
                   Plain(wif(heap[k], uu, prefix)))
    /\ UNCHANGED <<heap, loc>>

AsText(t, KS, PX) ==
    /\ pc[t] = "idle"
    /\ \E k \in KS, apx \in PX, spx \in PX, wpx \in PX :
          Complete(t, "as_text", k,
                   [address_prefix |-> apx, sec_prefix |-> spx, wif_prefix |-> wpx],
                   Plain(as_text(heap[k], apx, spx, wpx)))
    /\ UNCHANGED <<heap, loc>>

\* What the caller of self.hash160() makes of its answer h.
Hash160Outcome(caller, h, prefix) ==
    IF caller = "address" THEN Plain(AddressOf(h, prefix)) ELSE Value(h)

\* Entry of Key.hash160 (called directly or from Key.address): a key
\* without a public pair answers from its slot; otherwise the slot is
\* tested and the call goes on to fill it or to return it.
Hash160Enter(t, k, uu, caller, prefix) ==
    LET key == heap[k]
        u == use_uncompressed(key, uu)
    IN IF key.public_pair = None
       THEN /\ Complete(t, caller, k, [use_uncompressed |-> uu, prefix |-> prefix],
                        Hash160Outcome(caller, Slot(key, u), prefix))
            /\ UNCHANGED loc
       ELSE /\ pc' = [pc EXCEPT ![t] =
                         IF Slot(key, u) = None THEN "hash160_fill"
                         ELSE "hash160_return"]
            /\ loc' = [loc EXCEPT ![t] = [self |-> k, u |-> u, caller |-> caller,
                                          uu |-> uu, prefix |-> prefix]]
            /\ UNCHANGED ret

Hash160(t, KS, UU) ==
    /\ pc[t] = "idle"
    /\ \E k \in KS, uu \in UU : Hash160Enter(t, k, uu, "hash160", None)
    /\ UNCHANGED heap

Address(t, KS, UU, PX) ==
    /\ pc[t] = "idle"
    /\ \E k \in KS, uu \in UU, prefix \in PX : Hash160Enter(t, k, uu, "address", prefix)
    /\ UNCHANGED heap

\* self._hash160_x = hash160(self.sec(use_uncompressed=use_uncompressed))
Hash160Fill(t) ==
    /\ pc[t] = "hash160_fill"
    /\ heap' = [heap EXCEPT ![loc[t].self] = FillSlot(@, loc[t].u)]
    /\ pc' = [pc EXCEPT ![t] = "hash160_return"]
    /\ UNCHANGED <<loc, ret>>

\* return self._hash160_x
Hash160Return(t) ==
    /\ pc[t] = "hash160_return"
    /\ Complete(t, loc[t].caller, loc[t].self,
                [use_uncompressed |-> loc[t].uu, prefix |-> loc[t].prefix],
                Hash160Outcome(loc[t].caller, Slot(heap[loc[t].self], loc[t].u),
                               loc[t].prefix))
    /\ loc' = [loc EXCEPT ![t] = NoLoc]
    /\ UNCHANGED heap

PublicCopy(t, KS) ==
    /\ pc[t] = "idle"
    /\ \E k \in KS :
          IF ~is_private(heap[k])
          THEN /\ Complete(t, "public_copy", k, <<>>, Value(k))
               /\ UNCHANGED heap
          ELSE /\ Len(heap) < MaxKeys
               /\ LET r == PublicCopyOf(heap[k])
                  IN /\ heap' = IF r.error = "" THEN Append(heap, r.key) ELSE heap
                     /\ Complete(t, "public_copy", k, <<>>,
                                 [result |-> IF r.error = "" THEN Len(heap) + 1 ELSE 0,
                                  error |-> r.error, calls |-> <<>>])
    /\ UNCHANGED loc

\* The generator draws the nonce; a nonce it rejects is not drawn.
Sign(t, KS, HM, NS) ==
    /\ pc[t] = "idle"
    /\ \E k \in KS, h \in HM, nonce \in NS :
          /\ is_private(heap[k]) =>
                SignWithNonce(Val(heap[k].secret_exponent), from_bytes_32(h), nonce) # None
          /\ Complete(t, "sign", k, [h |-> h], Plain(SignEval(heap[k], h, nonce)))
    /\ UNCHANGED <<heap, loc>>

Verify(t, KS, HM, SG, GS) ==
    /\ pc[t] = "idle"
    /\ \E k \in KS, h \in HM, sig \in SG, g \in GS :
          Complete(t, "verify", k, [h |-> h, sig |-> sig, generator |-> g],
                   VerifyEval(heap[k], h, sig, g))
    /\ UNCHANGED <<heap, loc>>

\* The caller takes the outcome and is free to make its next call.
Return(t) ==
    /\ pc[t] = "done"
    /\ pc' = [pc EXCEPT ![t] = "idle"]
    /\ ret' = [ret EXCEPT ![t] = NoRet]
    /\ UNCHANGED <<heap, loc>>

\* ------------------------------------------------------------------------
\* Specifications
\* ------------------------------------------------------------------------
Keys == 1..Len(heap)

\* One caller: calls on the objects happen one after another.
SeqThreads == {1}

Init ==
    /\ heap = <<>>
    /\ pc = [t \in SeqThreads |-> "idle"]
    /\ loc = [t \in SeqThreads |-> NoLoc]
    /\ ret = [t \in SeqThreads |-> NoRet]

Next ==
    \E t \in SeqThreads :
        \/ Construct(t, Secrets, Generators, Pairs, Hashes, OptBool, OptBool)
        \/ SecretExponent(t, Keys)
        \/ PublicPair(t, Keys)
        \/ Sec(t, Keys, OptBool)
        \/ Wif(t, Keys, OptBool, Prefixes)
        \/ AsText(t, Keys, Prefixes)
        \/ Hash160(t, Keys, OptBool)
        \/ Address(t, Keys, OptBool, Prefixes)
        \/ Hash160Fill(t)
        \/ Hash160Return(t)
        \/ PublicCopy(t, Keys)
        \/ Sign(t, Keys, Msgs, Nonces)
        \/ Verify(t, Keys, Msgs, Sigs, Generators)
        \/ Return(t)

Spec == Init /\ [][Next]_vars

\* Several threads calling concurrently into one object, the first built;
\* the inputs are a sample of those of Spec.
ConcThreads == 1..NThreads

InitConc ==
    /\ heap = <<>>
    /\ pc = [t \in ConcThreads |-> "idle"]
    /\ loc = [t \in ConcThreads |-> NoLoc]
    /\ ret = [t \in ConcThreads |-> NoRet]

ConcSecrets == {None, Some(0), Some(3)}
ConcHashes == {None, Some(public_pair_to_hash160_sec(PointMul(3, Curve.G), TRUE))}
ConcPrefix == {Some(<<0>>)}

\* The first object built.
Root == Keys \cap {1}

NextConc ==
    \E t \in ConcThreads :
        \/ Construct(t, ConcSecrets, {Some(Curve.G)}, {None}, ConcHashes,
                     {None, Some(TRUE)}, {None, Some(TRUE)})
        \/ SecretExponent(t, Root)
        \/ PublicPair(t, Root)
        \/ Sec(t, Root, {None})
        \/ Wif(t, Root, {None}, ConcPrefix)
        \/ AsText(t, Root, {None})
        \/ Hash160(t, Root, {Some(TRUE), Some(FALSE)})
        \/ Address(t, Root, {None}, ConcPrefix)
        \/ Hash160Fill(t)
        \/ Hash160Return(t)
        \/ PublicCopy(t, Root)
        \/ Sign(t, Root, {<<1>>}, {2})
        \/ Verify(t, Root, {<<1>>}, {sigencode_der(3, 1), <<>>}, {None})
        \/ Return(t)

SpecConc == InitConc /\ [][NextConc]_vars

\* ------------------------------------------------------------------------
\* Properties
\* ------------------------------------------------------------------------
Threads == DOMAIN pc

\* Thread t has just completed a call of op.
Done(t, op) == pc[t] = "done" /\ ret[t].op = op

ArityError == "exactly one of secret_exponent, public_pair, hash160 must be passed."
MissingGeneratorError == "generator not specified when secret exponent specified"

\* How many of secret_exponent, public_pair, hash160 the caller supplied.
Supplied(a) ==
    (IF a.secret_exponent # None THEN 1 ELSE 0)
    + (IF a.public_pair # None THEN 1 ELSE 0)
    + (IF a.hash160 # None THEN 1 ELSE 0)

\* The arguments carry a secret exponent and nothing else as key material.
SecretOnly(a) ==
    a.secret_exponent # None /\ a.public_pair = None /\ a.hash160 = None

C2_SecretExponentRange ==
    \A t \in Threads :
        (Done(t, "Key") /\ SecretOnly(ret[t].args) /\ ret[t].args.generator # None) =>
            LET s == Val(ret[t].args.secret_exponent)
                P == PointMul(s, Val(ret[t].args.generator))
            IN IF 1 <= s /\ s < order
               THEN /\ ret[t].error = ""
                    /\ ret[t].result \in Keys
                    /\ heap[ret[t].result].public_pair = Some(P)
                    /\ P # Infinity
                    /\ contains_point(P[1], P[2])
               ELSE /\ ret[t].error = "InvalidSecretExponentError"
                    /\ heap = <<>>

\* The largest valid secret exponent has been accepted.
C2_Witness ==
    \E t \in Threads :
        /\ Done(t, "Key")
        /\ ret[t].args.secret_exponent = Some(order - 1)
        /\ ret[t].error = ""
        /\ heap[ret[t].result].public_pair = Some(PointMul(order - 1, Curve.G))

\* C3: a secret exponent supplied without a generator always raises the
\* missing-generator error, whatever its value.
C3_MissingGenerator ==
    \A t \in Threads :
        (Done(t, "Key") /\ SecretOnly(ret[t].args) /\ ret[t].args.generator = None) =>
            ret[t].error = MissingGeneratorError

\* C4: public_copy of a private key returns a new key without secret
\* exponent, with the same public pair and compression preference; of any
\* other key it returns the key itself; the key is unchanged.
C4_PublicCopy ==
    [][\A t \in Threads :
          (pc[t] = "idle" /\ pc'[t] = "done" /\ ret'[t].op = "public_copy") =>
              LET k == ret'[t].self
                  c == ret'[t].result
              IN /\ ret'[t].error = ""
                 /\ heap'[k] = heap[k]
                 /\ IF heap[k].secret_exponent # None
                    THEN /\ c \notin DOMAIN heap
                         /\ c \in DOMAIN heap'
                         /\ heap'[c].secret_exponent = None
                         /\ heap'[c].public_pair = heap[k].public_pair
                         /\ heap'[c].prefer_uncompressed = heap[k].prefer_uncompressed
                    ELSE c = k /\ heap' = heap]_vars

\* A private key that prefers uncompressed and has memoized its compressed
\* hash160 has been copied.
C4_Witness ==
    \E t \in Threads :
        /\ Done(t, "public_copy")
        /\ heap[ret[t].self].secret_exponent # None
        /\ heap[ret[t].self].prefer_uncompressed
        /\ heap[ret[t].self].hash160_compressed # None
        /\ ret[t].result # ret[t].self

\* The DER signatures Key.sign can return for secret exponent d over h.
SignaturesBy(d, h) ==
    {sigencode_der(rs[1], rs[2]) : rs \in SignResults(d, from_bytes_32(h))}

Invoked(calls, fn) == \E i \in 1..Len(calls) : calls[i].fn = fn

\* C5: a private key verifies every signature it can produce for h, and a
\* key that knows its public pair never asks the generator for candidate
\* public pairs.
C5_SignVerify ==
    \A t \in Threads :
        Done(t, "verify") =>
            LET key == heap[ret[t].self]
                a == ret[t].args
            IN /\ (/\ key.secret_exponent # None
                   /\ a.generator = None
                   /\ a.sig \in SignaturesBy(Val(key.secret_exponent), a.h))
                  => (ret[t].error = "" /\ ret[t].result = Some(TRUE))
               /\ key.public_pair # None =>
                      ~Invoked(ret[t].calls, "possible_public_pairs_for_signature")

\* A private key has verified one of its own signatures.
C5_Witness ==
    \E t \in Threads :
        /\ Done(t, "verify")
        /\ heap[ret[t].self].secret_exponent # None
        /\ ret[t].args.generator = None
        /\ ret[t].args.sig \in
              SignaturesBy(Val(heap[ret[t].self].secret_exponent), ret[t].args.h)
        /\ ret[t].result = Some(TRUE)

\* The hash160 a key without public pair was built from.
StoredHash(key) ==
    IF key.hash160_compressed # None THEN key.hash160_compressed
    ELSE key.hash160_uncompressed

HashOnly(key) == key.public_pair = None /\ key.secret_exponent = None

\* C6: a key holding only the hash160 of the compressed encoding of
\* P = d * G, whatever flags it was built with, verifies every signature the
\* secret exponent d produces.
C6_HashOnlyVerify ==
    \A t \in Threads :
        Done(t, "verify") =>
            LET key == heap[ret[t].self]
                a == ret[t].args
            IN (/\ HashOnly(key)
                /\ ResolveGenerator(key, a.generator) # None
                /\ \E d \in 1..(order - 1) :
                      /\ StoredHash(key) =
                            Some(public_pair_to_hash160_sec(PointMul(d, Curve.G), TRUE))
                      /\ a.sig \in SignaturesBy(d, a.h))
               => (ret[t].error = "" /\ ret[t].result = Some(TRUE))

\* The calls of the generator's verify primitive, in order.
VerifyCalls(calls) == SelectSeq(calls, LAMBDA c : c.fn = "verify")

C8_MalformedSignature ==
    \A t \in Threads :
        Done(t, "verify") =>
            LET key == heap[ret[t].self]
                a == ret[t].args
            IN IF a.generator = None /\ key.generator = None
               THEN /\ ret[t].error = "generator must be specified"
                    /\ ret[t].calls = <<>>
               ELSE IF sigdecode_der(a.sig) = None
               THEN /\ ret[t].error = "UnexpectedDER"
                    /\ ret[t].result \notin {Some(TRUE), Some(FALSE)}
                    /\ ret[t].result = None
                    /\ ret[t].calls = <<Call("sigdecode_der", <<>>)>>
               ELSE /\ ret[t].error = ""
                    /\ ret[t].calls[1] = Call("sigdecode_der", <<>>)

\* A key with a stored generator and no override was given a truncated
\* signature.
C8_Witness ==
    \E t \in Threads :
        /\ Done(t, "verify")
        /\ heap[ret[t].self].generator # None
        /\ ret[t].args.generator = None
        /\ HashOnly(heap[ret[t].self])
        /\ sigdecode_der(ret[t].args.sig) = None
        /\ ret[t].error = "UnexpectedDER"

\* C10: right after public_copy of a private key, each hash160 slot of the
\* copy is populated exactly when the key's is, with the same value.
C10_CopyKeepsSlots ==
    \A t \in Threads :
        (Done(t, "public_copy") /\ heap[ret[t].self].secret_exponent # None) =>
            LET k == heap[ret[t].self]
                c == heap[ret[t].result]
            IN /\ c.hash160_compressed = k.hash160_compressed
               /\ c.hash160_uncompressed = k.hash160_uncompressed

\* The variant a hash160 call with argument uu resolves to.
Variant(key, uu) == (uu = Some(TRUE)) \/ (uu = None /\ key.prefer_uncompressed)

\* The hash160 slots of a key with a public pair hold nothing or the
\* hash160 of the pair's encoding in the slot's variant, and a completed
\* hash160 call has returned that value.
SlotsRight ==
    /\ \A k \in Keys : \A u \in BOOLEAN :
          (heap[k].public_pair # None /\ Slot(heap[k], u) # None) =>
              Slot(heap[k], u) =
                  Some(public_pair_to_hash160_sec(Val(heap[k].public_pair), ~u))
    /\ \A t \in Threads :
          (Done(t, "hash160") /\ heap[ret[t].self].public_pair # None) =>
              ret[t].result =
                  Some(public_pair_to_hash160_sec(
                           Val(heap[ret[t].self].public_pair),
                           ~Variant(heap[ret[t].self], ret[t].args.use_uncompressed)))

\* A step keeps every object, its secret exponent, public pair, generator
\* and preference, and every populated hash160 slot.
StepKeepsKeys ==
    \A k \in DOMAIN heap :
        /\ k \in DOMAIN heap'
        /\ heap'[k].secret_exponent = heap[k].secret_exponent
        /\ heap'[k].public_pair = heap[k].public_pair
        /\ heap'[k].generator = heap[k].generator
        /\ heap'[k].prefer_uncompressed = heap[k].prefer_uncompressed
        /\ \A u \in BOOLEAN :
              Slot(heap[k], u) # None => Slot(heap'[k], u) = Slot(heap[k], u)

\* C9: under any interleaving of calls by concurrent threads, a key's
\* secret exponent, public pair, generator and preference never change, a
\* hash160 slot once populated never changes, the value written for a key
\* with a public pair is the hash160 of the pair's encoding in the slot's
\* variant, and every hash160 call returns it.
C9_MemoOnly == [][StepKeepsKeys]_vars /\ []SlotsRight

\* Two threads raced on one empty slot: one has stored its value and the
\* other, which also found the slot empty, is about to store again.
C9_Witness ==
    \E t1 \in Threads, t2 \in Threads :
        /\ pc[t1] = "hash160_return"
        /\ pc[t2] = "hash160_fill"
        /\ loc[t1].self = loc[t2].self
        /\ loc[t1].u = loc[t2].u
        /\ Slot(heap[loc[t2].self], loc[t2].u) # None

====
